---- MODULE Spec2Model ----
(***************************************************************************)
(* The AI Request Gateway of src/main.py: the credential store (ai_config), *)
(* the usage ledger (ai_usage_log), the token-bucket RateLimiter and the    *)
(* retry/backoff invoker call_ai.                                           *)
(*                                                                          *)
(* Units.  Money is counted in 1e-8 USD, so that the prices of PRICING      *)
(* (0.14 and 0.28 USD per 1e6 tokens) are the integers 14 and 28 per token  *)
(* and every cost is exact.  The limiter's token count is counted in        *)
(* 1/Period of a token, so that the refill of (now-last)/period*max tokens  *)
(* is the integer (now-last)*max.  The clock is in whole seconds.           *)
(***************************************************************************)
EXTENDS Integers, Sequences, FiniteSets, TLC

\* ------------------------------------------------------------------ bounds
\* operations of one behaviour: call_ai and save_ai_config invocations,
\* idle waits of the user and changes of the calendar month
MaxOps == 4
\* longest key typed into the vault
MaxKeyLen == 20

\* ------------------------------------------------- configuration (l.52-65)
CRYPTO_AVAILABLE == TRUE
SECRET_KEY == "dev-secret-key-change-in-production-32c"
Period == 60
\* a slip: one attempt more, range(3 + 1)
MaxAttempts_Four == 3 + 1

MaxAttempts == 3
ErrTextCap == 150

None == "<None>"

Callers == {"c1"}

\* the invocations of call_ai that may be in flight at once when several
\* sessions are served: Callers and the caller of another session
Racers == {"c1", "c2"}

\* the sessions that may run save_ai_config; the first is the session of Callers
Savers == {"s1", "s2"}
OwnSaver == "s1"

\* the threads that may call acquire() on one limiter
Threads == {"t1", "t2"}

\* values of AI_RATE_LIMIT_RPM the limiter is built with
RateLimits == {1, 2}
\* seconds the user may wait between two operations
TickSteps == {60}

\* inputs of save_ai_config: <<api_key, model, budget>>
SaveInputs ==
    {<<"", "deepseek-chat", 28000000>>,
     <<"sk-live", "deepseek-chat", -28000000>>,
     <<"sk-live", "deepseek-chat", 0>>,
     <<"sk-live", "deepseek-chat", 28000000>>,
     <<"sk-live", "custom-model", 28000000>>}

\* token usage a 200 response may report: <<prompt_tokens, completion_tokens>>
Usages == {<<0, 0>>, <<1000000, 0>>, <<1000000, 500000>>}

PricedModels == {"deepseek-chat", "deepseek-coder"}
PRICING == [m \in PricedModels |-> [in |-> 14, out |-> 28]]
DefaultPrice == [in |-> 14, out |-> 28]

\* ------------------------------------------------------------ pure helpers
Min(a, b) == IF a <= b THEN a ELSE b

RECURSIVE Pow2(_)
Pow2(n) == IF n = 0 THEN 1 ELSE 2 * Pow2(n - 1)

RECURSIVE SumCost(_)
SumCost(s) == IF s = <<>> THEN 0 ELSE Head(s).cost_usd + SumCost(Tail(s))

\* ------------------------------------------------------- credential vault
encrypt_secret(plaintext) ==
    IF plaintext = "" \/ ~CRYPTO_AVAILABLE THEN plaintext
    ELSE "fernet[" \o SECRET_KEY \o "]:" \o plaintext

FernetPrefix == "fernet[" \o SECRET_KEY \o "]:"

\* a slip: the ciphertext is handed back as it is, as when there is no cipher
decrypt_secret_NoCipher(ciphertext) == IF ciphertext = "" THEN None ELSE ciphertext

decrypt_secret(ciphertext) ==
    IF ciphertext = "" THEN None
    ELSE IF ~CRYPTO_AVAILABLE THEN ciphertext
    ELSE IF Len(ciphertext) > Len(FernetPrefix)
            /\ SubSeq(ciphertext, 1, Len(FernetPrefix)) = FernetPrefix
         THEN SubSeq(ciphertext, Len(FernetPrefix) + 1, Len(ciphertext))
         ELSE None

\* "●" * n
RECURSIVE Bullets(_)
Bullets(n) == IF n = 0 THEN "" ELSE "●" \o Bullets(n - 1)

\* a slip: a key of exactly 8 characters is shown whole
mask_key_AtLeast8(key) ==
    IF key # "" /\ Len(key) >= 8 THEN SubSeq(key, 1, 8) \o "···" \o Bullets(8) ELSE "●●●"

\* key[:8] + "···" + "●" * 8 if key and len(key) > 8 else "●●●"
mask_key(key) ==
    IF key # "" /\ Len(key) > 8 THEN SubSeq(key, 1, 8) \o "···" \o Bullets(8) ELSE "●●●"

\* ------------------------------------------------------------------ state
VARIABLES
    ai_config,      \* table ai_config: sequence of CredentialProfile rows
    ai_usage_log,   \* table ai_usage_log: sequence of UsageRecord rows
    rl,             \* st.session_state._rl, the session's RateLimiter
    now,            \* the clock, in seconds
    month,          \* the calendar month of the wall clock
    call,           \* per caller: the frame of its call_ai invocation
    saver,          \* per session: the frame of its save_ai_config invocation
    th,             \* the threads inside RateLimiter.acquire and its lock
    vault,          \* a key under the operations of the credential vault
    acquired,       \* the value the last acquire() returned
    started,        \* number of call_ai invocations started
    ops             \* number of operations started

vars == <<ai_config, ai_usage_log, rl, acquired, now, month, call, saver, th, vault, started, ops>>

NoCfg == [found |-> FALSE, api_key |-> None, model |-> "", monthly_budget |-> 0]

NoResult == [state |-> "pending", success |-> FALSE, error |-> None,
             cost_usd |-> 0, prompt_tokens |-> 0, completion_tokens |-> 0]

\* the frame of a call_ai invocation: its locals (cfg, monthly_cost, attempt,
\* last_error), its position pc, and its history: the last check it ran
\* (stage), what acquire() returned to it (rate_ok), the HTTP requests and
\* sleeps it made (events) and what it gave back to its caller (result)
IdleCall == [pc |-> "idle", id |-> 0, cfg |-> NoCfg, monthly_cost |-> 0,
             attempt |-> 0, last_error |-> "", stage |-> "", rate_ok |-> FALSE,
             events |-> <<>>, result |-> NoResult]

NoRL == [made |-> FALSE, max |-> 0, tokens |-> 0, last |-> 0]

IdleSaver == [pc |-> "idle", api_key |-> "", model |-> "", budget |-> 0]

\* no save_ai_config is between its UPDATE and its INSERT
NoSaveRunning == \A s \in Savers : saver[s].pc = "idle"

\* no thread is in acquire(): the lock is free and nothing was called yet
\* (pc, t_now: position and local `now` of each thread; order: the calls in
\* the order they read the clock, each with the value it returned; slot: the
\* place of a thread's running call in order)
NoThreads == [holder |-> None,
              pc |-> [t \in Threads |-> "idle"],
              t_now |-> [t \in Threads |-> 0],
              slot |-> [t \in Threads |-> 0],
              order |-> <<>>]

\* no key is under the vault's operations
\* (key: the key typed so far; masked: what mask_key showed of it; token: the
\* stored ciphertext and origin where it came from; opened: what
\* decrypt_secret made of token)
NoVault == [key |-> "", masked |-> None, token |-> "", origin |-> "none",
            opened |-> "<unset>"]

\* ---------------------------------------------------------- rate limiter
\* RateLimiter.__init__: a full bucket, last refill at construction time
NewRateLimiter(max_tokens, t) ==
    [made |-> TRUE, max |-> max_tokens, tokens |-> max_tokens * Period, last |-> t]

\* a slip: the refill is not capped
Refill_Uncapped(l, t) == l.tokens + (t - l.last) * l.max

\* a slip: one token per period is refilled, whatever the capacity
Refill_OnePerPeriod(l, t) == Min(l.max * Period, l.tokens + (t - l.last))

\* the refill of acquire(): min(max, tokens + (now-last)/period*max)
Refill(l, t) == Min(l.max * Period, l.tokens + (t - l.last) * l.max)

\* a slip: a count of exactly one token is not enough
acquire_MoreThanOne(l, t) ==
    LET refilled == Refill(l, t)
    IN  IF refilled > Period
        THEN [rl |-> [l EXCEPT !.tokens = refilled - Period, !.last = t], ok |-> TRUE]
        ELSE [rl |-> [l EXCEPT !.tokens = refilled, !.last = t], ok |-> FALSE]

\* acquire(): the limiter after the call and the value returned
acquire(l, t) ==
    LET refilled == Refill(l, t)
    IN  IF refilled >= Period
        THEN [rl |-> [l EXCEPT !.tokens = refilled - Period, !.last = t], ok |-> TRUE]
        ELSE [rl |-> [l EXCEPT !.tokens = refilled, !.last = t], ok |-> FALSE]

\* get_rl(): the session's limiter, built on first use
get_rl(l, rpm, t) == IF l.made THEN l ELSE NewRateLimiter(rpm, t)

\* ------------------------------------------------------ credential store
\* datetime('now') values <<month, second>> compared as the text they are stored as
NotAfter(a, b) == a[1] < b[1] \/ (a[1] = b[1] /\ a[2] <= b[2])

ActiveRows == {i \in 1..Len(ai_config) : ai_config[i].is_active}

\* SELECT ... WHERE is_active=1 ORDER BY updated_at DESC LIMIT 1: the rows
\* the query may return (rows of equal updated_at come in no defined order)
LatestActive ==
    {i \in ActiveRows : \A j \in ActiveRows : NotAfter(ai_config[j].updated_at, ai_config[i].updated_at)}

\* get_ai_config() when the query returns row i
ConfigOfRow(i) ==
    [found |-> TRUE,
     api_key |-> decrypt_secret(ai_config[i].encrypted_api_key),
     model |-> ai_config[i].model,
     monthly_budget |-> ai_config[i].monthly_budget]

\* the values get_ai_config() may return
get_ai_config ==
    IF LatestActive = {} THEN {NoCfg} ELSE {ConfigOfRow(i) : i \in LatestActive}

\* a slip: the key of the profile is not looked at
NotConfigured_KeyIgnored(cfg) == ~cfg.found

\* cfg is None, or cfg["api_key"] is None or empty
NotConfigured(cfg) == ~cfg.found \/ cfg.api_key = None \/ cfg.api_key = ""

\* ---------------------------------------------------------- usage ledger
\* a slip: the month of the record is not looked at
CountsThisMonth_AllTime(r) == r.success

\* WHERE success=1 AND strftime('%Y-%m',created_at)=strftime('%Y-%m','now')
CountsThisMonth(r) == r.success /\ r.created_at = month

\* a slip: the query matches no record, and COALESCE makes that 0
get_monthly_cost_NoMatch == SumCost(<<>>)

get_monthly_cost == SumCost(SelectSeq(ai_usage_log, CountsThisMonth))

\* a slip: the success column is filled from the error column
UsageRow_SuccessFromError(id, model, ptok, ctok, cost, success, error) ==
    [call |-> id, model |-> model, prompt_tokens |-> ptok,
     completion_tokens |-> ctok, cost_usd |-> cost, success |-> (error # None),
     error_msg |-> error, created_at |-> month]

\* the row that log_ai_usage inserts
UsageRow(id, model, ptok, ctok, cost, success, error) ==
    [call |-> id, model |-> model, prompt_tokens |-> ptok,
     completion_tokens |-> ctok, cost_usd |-> cost, success |-> success,
     error_msg |-> error, created_at |-> month]

\* a slip: the new record is put in front of the earlier ones
log_ai_usage_NewestFirst(row) == ai_usage_log' = <<row>> \o ai_usage_log

\* a slip: only the successes are logged
log_ai_usage_SuccessOnly(row) ==
    ai_usage_log' = IF row.success THEN Append(ai_usage_log, row) ELSE ai_usage_log

log_ai_usage(row) == ai_usage_log' = Append(ai_usage_log, row)

\* ------------------------------------------------- outcomes of an attempt
\* what one requests.post + response handling can meet (l.840-855)
Response(status, body, usage, text) ==
    [kind |-> "response", status |-> status, body |-> body,
     ptok |-> usage[1], ctok |-> usage[2], text |-> text]

Raised(kind, msg) ==
    [kind |-> kind, status |-> 0, body |-> "", ptok |-> 0, ctok |-> 0, text |-> msg]

Outcomes ==
    {Response(200, "ok", u, "") : u \in Usages}
    \cup {Response(200, "bad", <<0, 0>>, "'choices'")}
    \cup {Response(429, "", <<0, 0>>, "Too Many Requests"),
          Response(503, "", <<0, 0>>, "Service Unavailable"),
          Response(404, "", <<0, 0>>, "Not Found")}
    \cup {Raised("Timeout", "Read timed out."),
          Raised("ConnectionError", "Connection refused"),
          Raised("Exception", "Exceeded 30 redirects.")}

\* the branch of the attempt's try/except that outcome o takes (l.844-855):
\* what the loop does next and the value of last_error afterwards
\* a slip: the status is retried but last_error keeps its earlier value
OnTransientStatus_ErrorKept(status, last_error) ==
    [do |-> "continue", err |-> last_error]

\* l.851: elif r.status_code in (429,503): last_error=...; continue
OnTransientStatus(status, last_error) ==
    [do |-> "continue", err |-> "HTTP " \o ToString(status)]

\* a slip: every status other than 200 is retried
OnOtherStatus_Retried(status, text) ==
    [do |-> "continue",
     err |-> "HTTP " \o ToString(status) \o ": " \o SubSeq(text, 1, Min(Len(text), ErrTextCap))]

\* l.852: else: last_error=f"HTTP {r.status_code}: {r.text[:150]}"; break
OnOtherStatus(status, text) ==
    [do |-> "break",
     err |-> "HTTP " \o ToString(status) \o ": " \o SubSeq(text, 1, Min(Len(text), ErrTextCap))]

\* a slip: a timeout leaves the loop
OnTimeout_Break == [do |-> "break", err |-> "Timeout"]

\* l.853: except Timeout: last_error="Timeout" (the loop goes on)
OnTimeout == [do |-> "continue", err |-> "Timeout"]

\* l.854: except ConnectionError: last_error="Cannot reach API"; break
OnConnectionError == [do |-> "break", err |-> "Cannot reach API"]

\* a slip: no handler for the other exceptions
OnException_Uncaught(msg) == [do |-> "raise", err |-> msg]

\* a slip: the loop goes on after any other exception
OnException_Retried(msg) == [do |-> "continue", err |-> msg]

\* l.855: except Exception as e: last_error=str(e); break
OnException(msg) == [do |-> "break", err |-> msg]

\* the bodies of a 200 that l.845-846 read without an exception: a
\* completion text, or a content field that is there and null (content is
\* then None; nothing looks at its value)
ParsedBodies == {"ok", "null-content"}

Classify(o, last_error) ==
    IF o.kind = "response" THEN
        IF o.status = 200 THEN
            IF o.body \in ParsedBodies THEN [do |-> "return", err |-> last_error]
            ELSE OnException(o.text)
        ELSE IF o.status \in {429, 503} THEN OnTransientStatus(o.status, last_error)
        ELSE OnOtherStatus(o.status, o.text)
    ELSE IF o.kind = "Timeout" THEN OnTimeout
    ELSE IF o.kind = "ConnectionError" THEN OnConnectionError
    ELSE OnException(o.text)

\* PRICING.get(model, {"in":0.14,"out":0.28})
PriceOf(model) == IF model \in PricedModels THEN PRICING[model] ELSE DefaultPrice

\* a slip: the two prices are taken the wrong way round
CostOf_Swapped(model, ptok, ctok) == ptok * PriceOf(model).out + ctok * PriceOf(model).in

\* cost = ptok/1e6*p["in"] + ctok/1e6*p["out"]
CostOf(model, ptok, ctok) == ptok * PriceOf(model).in + ctok * PriceOf(model).out

\* for attempt in range(3): if attempt > 0: time.sleep(2**attempt)
NeedsSleep(attempt) == attempt > 0

\* a slip: the exponent is one too small
SleepSeconds_OneLess(attempt) == Pow2(attempt - 1)

SleepSeconds(attempt) == Pow2(attempt)

\* the arguments of the log_ai_usage call after the loop (l.856)
FailureRow(id, model, last_error) == UsageRow(id, model, 0, 0, 0, FALSE, last_error)

\* AIResponse(False, error=...)
Failure(error) == [NoResult EXCEPT !.state = "returned", !.success = FALSE, !.error = error]

\* ---------------------------------------------------------------- call_ai
\* a slip: the profile is read again for every attempt
Sent_Reread(f) ==
    LET cfg == CHOOSE x \in get_ai_config : TRUE
    IN  [api_key |-> cfg.api_key, model |-> cfg.model]

\* l.828-836: model, api_key, headers and payload are built once, from the
\* cfg read at l.819, before the loop
Sent(f) == [api_key |-> f.cfg.api_key, model |-> f.cfg.model]

NothingSent == [api_key |-> "", model |-> ""]

HttpEvent(n, o, sent) == [e |-> "http", n |-> n, d |-> 0, o |-> o, sent |-> sent]
SleepEvent(n, d) == [e |-> "sleep", n |-> n, d |-> d, o |-> Raised("", ""), sent |-> NothingSent]

\* l.819-821: a new invocation reads the active profile
ReadProfile(c) ==
    /\ call[c].pc = "idle"
    /\ ops < MaxOps
    /\ ops' = ops + 1
    /\ started' = started + 1
    /\ \E cfg \in get_ai_config :
         LET fresh == [IdleCall EXCEPT !.id = started + 1, !.cfg = cfg, !.stage = "config"]
         IN  call' = [call EXCEPT ![c] =
                IF NotConfigured(cfg)
                THEN [fresh EXCEPT !.pc = "done",
                        !.result = Failure("AI not configured")]
                ELSE [fresh EXCEPT !.pc = "budget"]]
    /\ UNCHANGED <<ai_config, ai_usage_log, rl, acquired, now, month, saver, th, vault>>

\* the invocation of a session starts when no save of the session runs
ConfigCheck(c) == NoSaveRunning /\ ReadProfile(c)

\* a slip: the spend is never held against the ceiling
OverBudget_NoGate(monthly_cost, budget) == FALSE

\* a slip: the boundary is exclusive
OverBudget_Strict(monthly_cost, budget) == monthly_cost > budget

\* if monthly_cost >= budget
OverBudget(monthly_cost, budget) == monthly_cost >= budget

BudgetError(budget, monthly_cost) ==
    "Monthly budget " \o ToString(budget) \o " exceeded (" \o ToString(monthly_cost) \o " spent)"

\* a slip: the limiter is asked before the budget is looked at
BudgetCheck_RateFirst(c) ==
    /\ call[c].pc = "budget"
    /\ \E rpm \in RateLimits :
         rl' = acquire(get_rl(rl, rpm, now), now).rl
    /\ LET monthly_cost == get_monthly_cost
           budget == call[c].cfg.monthly_budget
       IN  call' = [call EXCEPT ![c] =
              IF OverBudget(monthly_cost, budget)
              THEN [@ EXCEPT !.pc = "done", !.stage = "budget",
                      !.monthly_cost = monthly_cost,
                      !.result = Failure(BudgetError(budget, monthly_cost))]
              ELSE [@ EXCEPT !.pc = "rate", !.stage = "budget",
                      !.monthly_cost = monthly_cost]]
    /\ UNCHANGED <<ai_config, ai_usage_log, acquired, now, month, saver, started, ops, th, vault>>

\* l.822-825
BudgetCheck(c) ==
    /\ call[c].pc = "budget"
    /\ LET monthly_cost == get_monthly_cost
           budget == call[c].cfg.monthly_budget
       IN  call' = [call EXCEPT ![c] =
              IF OverBudget(monthly_cost, budget)
              THEN [@ EXCEPT !.pc = "done", !.stage = "budget",
                      !.monthly_cost = monthly_cost,
                      !.result = Failure(BudgetError(budget, monthly_cost))]
              ELSE [@ EXCEPT !.pc = "rate", !.stage = "budget",
                      !.monthly_cost = monthly_cost]]
    /\ UNCHANGED <<ai_config, ai_usage_log, rl, acquired, now, month, saver, started, ops, th, vault>>

\* l.826-827 (and the loop set-up l.828-837)
RateCheck(c) ==
    /\ call[c].pc = "rate"
    /\ \E rpm \in RateLimits :
         LET a == acquire(get_rl(rl, rpm, now), now)
         IN  /\ rl' = a.rl
             /\ acquired' = a.ok
             /\ call' = [call EXCEPT ![c] =
                   IF a.ok
                   THEN [@ EXCEPT !.pc = "attempt", !.stage = "rate", !.rate_ok = TRUE,
                           !.attempt = 0, !.last_error = ""]
                   ELSE [@ EXCEPT !.pc = "done", !.stage = "rate", !.rate_ok = FALSE,
                           !.result = Failure("Rate limit")]]
    /\ UNCHANGED <<ai_config, ai_usage_log, now, month, saver, started, ops, th, vault>>

\* l.839: the backoff sleep at the head of an iteration
Sleep(c) ==
    /\ call[c].pc = "attempt"
    /\ NeedsSleep(call[c].attempt)
    /\ now' = now + SleepSeconds(call[c].attempt)
    /\ call' = [call EXCEPT ![c] =
          [@ EXCEPT !.pc = "request",
             !.events = Append(@, SleepEvent(call[c].attempt + 1, SleepSeconds(call[c].attempt)))]]
    /\ UNCHANGED <<ai_config, ai_usage_log, rl, acquired, month, saver, started, ops, th, vault>>

\* l.840-855: one HTTP attempt and the handling of its outcome
Request(c, o) ==
    /\ \/ call[c].pc = "request"
       \/ call[c].pc = "attempt" /\ ~NeedsSleep(call[c].attempt)
    /\ LET f == call[c]
           k == Classify(o, f.last_error)
           ev == Append(f.events, HttpEvent(f.attempt + 1, o, Sent(f)))
           cost == CostOf(Sent(f).model, o.ptok, o.ctok)
       IN  CASE k.do = "return" ->
                 /\ log_ai_usage(UsageRow(f.id, Sent(f).model, o.ptok, o.ctok, cost, TRUE, None))
                 /\ call' = [call EXCEPT ![c] =
                       [f EXCEPT !.pc = "done", !.events = ev,
                          !.result = [state |-> "returned", success |-> TRUE,
                                      error |-> None, cost_usd |-> cost,
                                      prompt_tokens |-> o.ptok,
                                      completion_tokens |-> o.ctok]]]
            [] k.do = "continue" ->
                 /\ call' = [call EXCEPT ![c] =
                       [f EXCEPT !.pc = IF f.attempt + 1 < MaxAttempts
                                        THEN "attempt" ELSE "log",
                          !.attempt = f.attempt + 1,
                          !.last_error = k.err, !.events = ev]]
                 /\ UNCHANGED ai_usage_log
            [] k.do = "break" ->
                 /\ call' = [call EXCEPT ![c] =
                       [f EXCEPT !.pc = "log", !.last_error = k.err, !.events = ev]]
                 /\ UNCHANGED ai_usage_log
            [] OTHER ->
                 /\ call' = [call EXCEPT ![c] =
                       [f EXCEPT !.pc = "done", !.events = ev,
                          !.result = [NoResult EXCEPT !.state = "raised", !.error = o.text]]]
                 /\ UNCHANGED ai_usage_log
    /\ UNCHANGED <<ai_config, rl, acquired, now, month, saver, started, ops, th, vault>>

\* l.856-857: the failure record and the failure result
LogFailure(c) ==
    /\ call[c].pc = "log"
    /\ log_ai_usage(FailureRow(call[c].id, Sent(call[c]).model, call[c].last_error))
    /\ call' = [call EXCEPT ![c] =
          [@ EXCEPT !.pc = "done", !.result = Failure(call[c].last_error)]]
    /\ UNCHANGED <<ai_config, rl, acquired, now, month, saver, started, ops, th, vault>>

\* the caller has taken the AIResponse: the frame of the invocation is gone
Return(c) ==
    /\ call[c].pc = "done"
    /\ call' = [call EXCEPT ![c] = IdleCall]
    /\ UNCHANGED <<ai_config, ai_usage_log, rl, acquired, now, month, saver, started, ops, th, vault>>

\* the script of a session is synchronous: between two operations no
\* call_ai frame is live
Quiet == \A c \in DOMAIN call : call[c].pc = "idle"

\* --------------------------------------------------------- save_ai_config
\* a slip: the earlier profiles are deleted, not deactivated
Deactivated_Deleted(rows) == <<>>

\* UPDATE ai_config SET is_active=0
Deactivated(rows) == [i \in 1..Len(rows) |-> [rows[i] EXCEPT !.is_active = FALSE]]

\* l.716: UPDATE ai_config SET is_active=0 (its own transaction)
SaveUpdate(s, api_key, model, budget) ==
    /\ saver[s].pc = "idle"
    /\ ops < MaxOps
    /\ ops' = ops + 1
    /\ ai_config' = Deactivated(ai_config)
    /\ saver' = [saver EXCEPT ![s] =
          [pc |-> "insert", api_key |-> api_key, model |-> model, budget |-> budget]]
    /\ UNCHANGED <<ai_usage_log, rl, acquired, now, month, call, started, th, vault>>

\* the save of a session starts when no invocation of the session runs
SaveDeactivate(s, api_key, model, budget) == Quiet /\ SaveUpdate(s, api_key, model, budget)

\* l.717-718: INSERT of the new active row (a second transaction)
SaveInsert(s) ==
    /\ saver[s].pc = "insert"
    /\ ai_config' = Append(ai_config,
          [id |-> Len(ai_config) + 1,
           encrypted_api_key |-> encrypt_secret(saver[s].api_key),
           model |-> saver[s].model,
           monthly_budget |-> saver[s].budget,
           is_active |-> TRUE,
           updated_at |-> <<month, now>>])
    /\ saver' = [saver EXCEPT ![s] = IdleSaver]
    /\ UNCHANGED <<ai_usage_log, rl, acquired, now, month, call, started, ops, th, vault>>

\* ------------------------------------------------------------ environment
\* the user waits d seconds
Tick(d) ==
    /\ Quiet
    /\ NoSaveRunning
    /\ ops < MaxOps
    /\ ops' = ops + 1
    /\ now' = now + d
    /\ UNCHANGED <<ai_config, ai_usage_log, rl, acquired, month, call, saver, started, th, vault>>

\* the wall clock passes the end of the calendar month
NewMonth ==
    /\ \A c \in DOMAIN call : call[c].pc # "done"
    /\ ops < MaxOps
    /\ ops' = ops + 1
    /\ month' = month + 1
    /\ UNCHANGED <<ai_config, ai_usage_log, rl, acquired, now, call, saver, started, th, vault>>

\* -------------------------------------------------------- specification
Init ==
    /\ ai_config = <<>>
    /\ ai_usage_log = <<>>
    /\ rl = NoRL
    /\ acquired = FALSE
    /\ now = 0
    /\ month = 0
    /\ call = [c \in Callers |-> IdleCall]
    /\ saver = [s \in Savers |-> IdleSaver]
    /\ th = NoThreads
    /\ vault = NoVault
    /\ started = 0
    /\ ops = 0

Next ==
    \/ \E c \in Callers : ConfigCheck(c)
    \/ \E c \in Callers : BudgetCheck(c)
    \/ \E c \in Callers : RateCheck(c)
    \/ \E c \in Callers : Sleep(c)
    \/ \E c \in Callers, o \in Outcomes : Request(c, o)
    \/ \E c \in Callers : LogFailure(c)
    \/ \E c \in Callers : Return(c)
    \/ \E a \in SaveInputs : SaveDeactivate(OwnSaver, a[1], a[2], a[3])
    \/ SaveInsert(OwnSaver)
    \/ \E d \in TickSteps : Tick(d)
    \/ NewMonth

Spec == Init /\ [][Next]_vars

\* the steps of an invocation that is in flight
CallStep(c) ==
    \/ BudgetCheck(c)
    \/ RateCheck(c)
    \/ Sleep(c)
    \/ \E o \in Outcomes : Request(c, o)
    \/ LogFailure(c)

\* call_ai is straight-line code run by the thread of its session: the
\* thread keeps running, every sleep ends, and every requests.post ends,
\* with a response or an exception, within timeout=AI_TIMEOUT (l.842)
\* (the invocations of a session whose profile is saved once or twice, with
\* every outcome of an attempt)
LiveSaves == {<<"sk-live", "deepseek-chat", 28000000>>}

NextLive ==
    \/ \E c \in Callers : ConfigCheck(c)
    \/ \E c \in Callers : CallStep(c)
    \/ \E c \in Callers : Return(c)
    \/ \E a \in LiveSaves : SaveDeactivate(OwnSaver, a[1], a[2], a[3])
    \/ SaveInsert(OwnSaver)

SpecLive == Init /\ [][NextLive]_vars /\ \A c \in Callers : WF_vars(CallStep(c))

\* ------------------------------------------- the limiter on its own
\* seconds between one acquire() and the next
Gaps == {0, 1, 20, 30, 45, 60, 90}

\* acquire() is called d seconds after the previous clock reading
Acquire(d) ==
    /\ rl.made
    /\ ops < MaxOps
    /\ ops' = ops + 1
    /\ now' = now + d
    /\ rl' = acquire(rl, now + d).rl
    /\ acquired' = acquire(rl, now + d).ok
    /\ UNCHANGED <<ai_config, ai_usage_log, month, call, saver, started, th, vault>>

InitRL ==
    /\ ai_config = <<>>
    /\ ai_usage_log = <<>>
    /\ \E rpm \in RateLimits : rl = NewRateLimiter(rpm, 0)
    /\ acquired = FALSE
    /\ now = 0
    /\ month = 0
    /\ call = [c \in Callers |-> IdleCall]
    /\ saver = [s \in Savers |-> IdleSaver]
    /\ th = NoThreads
    /\ vault = NoVault
    /\ started = 0
    /\ ops = 0

NextRL == \E d \in Gaps : Acquire(d)

SpecRL == InitRL /\ [][NextRL]_vars

\* ----------------------------------- call_ai from two sessions at once
\* the profiles saved and the answers of the provider in these runs
RaceSaves == {<<"sk-live", "deepseek-chat", 14000000>>, <<"sk-live", "custom-model", 28000000>>}
RaceOutcomes == {o \in Outcomes : o.kind = "response" /\ o.body # "bad"}

NextRace ==
    \/ \E c \in Racers : ConfigCheck(c)
    \/ \E c \in Racers : BudgetCheck(c)
    \/ \E c \in Racers : RateCheck(c)
    \/ \E c \in Racers : Sleep(c)
    \/ \E c \in Racers, o \in RaceOutcomes : Request(c, o)
    \/ \E c \in Racers : LogFailure(c)
    \/ \E c \in Racers : Return(c)
    \/ \E a \in RaceSaves : SaveDeactivate(OwnSaver, a[1], a[2], a[3])
    \/ SaveInsert(OwnSaver)

\* as Init, with the frames of both sessions
InitRace ==
    /\ ai_config = <<>>
    /\ ai_usage_log = <<>>
    /\ rl = NoRL
    /\ acquired = FALSE
    /\ now = 0
    /\ month = 0
    /\ call = [c \in Racers |-> IdleCall]
    /\ saver = [s \in Savers |-> IdleSaver]
    /\ th = NoThreads
    /\ vault = NoVault
    /\ started = 0
    /\ ops = 0

SpecRace == InitRace /\ [][NextRace]_vars

\* ------------------- a session saves while another's call is in flight
InFlightSaves == {<<"sk-live", "deepseek-chat", 28000000>>, <<"sk-next", "custom-model", 14000000>>}
InFlightOutcomes == {o \in Outcomes : o.kind \in {"response", "Timeout"} /\ o.body # "bad"}

NextInFlight ==
    \/ \E c \in Callers : ReadProfile(c)
    \/ \E c \in Callers : BudgetCheck(c)
    \/ \E c \in Callers : RateCheck(c)
    \/ \E c \in Callers : Sleep(c)
    \/ \E c \in Callers, o \in InFlightOutcomes : Request(c, o)
    \/ \E c \in Callers : LogFailure(c)
    \/ \E c \in Callers : Return(c)
    \/ \E s \in Savers, a \in InFlightSaves : SaveUpdate(s, a[1], a[2], a[3])
    \/ \E s \in Savers : SaveInsert(s)

SpecInFlight == Init /\ [][NextInFlight]_vars

\* ----------------------------------------- a save that fails part-way
\* l.717-718 raises after the UPDATE of l.716 has committed: json.dumps or
\* encrypt_secret raises on its argument, or the INSERT itself raises
\* (database locked, disk full) and get_conn rolls that transaction back
\* (l.556-558); the exception goes to the caller of save_ai_config
SaveInsertFails(s) ==
    /\ saver[s].pc = "insert"
    /\ saver' = [saver EXCEPT ![s].pc = "raised"]
    /\ UNCHANGED <<ai_config, ai_usage_log, rl, acquired, now, month, call, started, ops, th, vault>>

\* the session goes on after the exception
SaveRaised(s) ==
    /\ saver[s].pc = "raised"
    /\ saver' = [saver EXCEPT ![s] = IdleSaver]
    /\ UNCHANGED <<ai_config, ai_usage_log, rl, acquired, now, month, call, started, ops, th, vault>>

NextSaveFail ==
    \/ \E c \in Callers : ConfigCheck(c)
    \/ \E c \in Callers : CallStep(c)
    \/ \E c \in Callers : Return(c)
    \/ \E a \in InFlightSaves : SaveDeactivate(OwnSaver, a[1], a[2], a[3])
    \/ SaveInsert(OwnSaver)
    \/ SaveInsertFails(OwnSaver)
    \/ SaveRaised(OwnSaver)

SpecSaveFail == Init /\ [][NextSaveFail]_vars

\* ------------------- what the handler of l.855 and a 200 may be given
\* the bodies of a 200: not JSON (r.json() raises), no "choices" key, no
\* "content" key in the message, a null content, a good body; an exception
\* whose str() is empty, as MemoryError(); and a 503
BodyOutcomes ==
    {Response(200, "ok", <<1000000, 500000>>, ""),
     Response(200, "not-json", <<0, 0>>, "Expecting value: line 1 column 1 (char 0)"),
     Response(200, "bad", <<0, 0>>, "'choices'"),
     Response(200, "no-content", <<0, 0>>, "'content'"),
     Response(200, "null-content", <<1000000, 500000>>, ""),
     Raised("Exception", ""),
     Response(503, "", <<0, 0>>, "Service Unavailable")}

NextBody ==
    \/ \E c \in Callers : ConfigCheck(c)
    \/ \E c \in Callers : BudgetCheck(c)
    \/ \E c \in Callers : RateCheck(c)
    \/ \E c \in Callers : Sleep(c)
    \/ \E c \in Callers, o \in BodyOutcomes : Request(c, o)
    \/ \E c \in Callers : LogFailure(c)
    \/ \E c \in Callers : Return(c)
    \/ \E a \in LiveSaves : SaveDeactivate(OwnSaver, a[1], a[2], a[3])
    \/ SaveInsert(OwnSaver)

SpecBody == Init /\ [][NextBody]_vars

\* ------------------------------------------- the vault on its own
\* the pieces a key is typed from
KeyParts == {"s", "k-live-", "0123456789ab"}

\* the user types the key into the form (st.text_input, l.2407)
TypeKey(part) ==
    /\ vault.origin = "none" /\ vault.masked = None /\ vault.opened = "<unset>"
    /\ Len(vault.key) + Len(part) <= MaxKeyLen
    /\ vault' = [vault EXCEPT !.key = @ \o part]
    /\ UNCHANGED <<ai_config, ai_usage_log, rl, acquired, now, month, call, saver, th, started, ops>>

\* strings that are no ciphertext under SECRET_KEY: the bare key, a token
\* made under another secret, a cut token, any text
Garbage(key) ==
    {key, "fernet[another-secret]:" \o key, "fernet[", "gAAAAA-not-a-token"} \ {""}

\* encrypt_secret(key) is stored
Encrypt ==
    /\ vault' = [vault EXCEPT !.token = encrypt_secret(vault.key),
                              !.origin = "encrypt", !.opened = "<unset>"]
    /\ UNCHANGED <<ai_config, ai_usage_log, rl, acquired, now, month, call, saver, th, started, ops>>

\* the stored value is something else than a ciphertext under SECRET_KEY
Tamper(g) ==
    /\ vault' = [vault EXCEPT !.token = g, !.origin = "garbage", !.opened = "<unset>"]
    /\ UNCHANGED <<ai_config, ai_usage_log, rl, acquired, now, month, call, saver, th, started, ops>>

\* decrypt_secret of the stored value
Decrypt ==
    /\ vault' = [vault EXCEPT !.opened = decrypt_secret(vault.token)]
    /\ UNCHANGED <<ai_config, ai_usage_log, rl, acquired, now, month, call, saver, th, started, ops>>

\* mask_key(key) is shown
Mask ==
    /\ vault' = [vault EXCEPT !.masked = mask_key(vault.key)]
    /\ UNCHANGED <<ai_config, ai_usage_log, rl, acquired, now, month, call, saver, th, started, ops>>

NextVault ==
    \/ \E part \in KeyParts : TypeKey(part)
    \/ Encrypt
    \/ \E g \in Garbage(vault.key) : Tamper(g)
    \/ Decrypt
    \/ Mask

SpecVault == Init /\ [][NextVault]_vars

\* ------------------------------ save_ai_config() from two sessions
\* the sessions share the database file; each db_exec commits on its own
\* (get_conn, l.546-560), so the two statements of one save can have the
\* statements of another between them
NextSave ==
    \/ \E s \in Savers, a \in SaveInputs : SaveDeactivate(s, a[1], a[2], a[3])
    \/ \E s \in Savers : SaveInsert(s)

SpecSave == Init /\ [][NextSave]_vars

\* ------------------------------- acquire() under concurrent threads
\* seconds that may pass between two steps of the threads
LockGaps == {1, 30}

\* a slip: acquire() takes no lock
LockFree_NoLock == TRUE

\* with self._lock: the lock can be taken when no thread holds it
LockFree == th.holder = None

\* l.793: a thread calls acquire() and takes the lock
Enter(t) ==
    /\ th.pc[t] = "idle"
    /\ LockFree
    /\ ops < MaxOps
    /\ ops' = ops + 1
    /\ th' = [th EXCEPT !.holder = t, !.pc[t] = "clock"]
    /\ UNCHANGED <<ai_config, ai_usage_log, rl, acquired, now, month, call, saver, vault, started>>

\* l.794: now=time.monotonic()
ReadClock(t) ==
    /\ th.pc[t] = "clock"
    /\ th' = [th EXCEPT !.pc[t] = "refill", !.t_now[t] = now,
                        !.slot[t] = Len(th.order) + 1,
                        !.order = Append(@, [t |-> t, at |-> now, ok |-> FALSE, done |-> FALSE])]
    /\ UNCHANGED <<ai_config, ai_usage_log, rl, acquired, now, month, call, saver, vault, started, ops>>

\* l.795: self._tokens=min(self._max, self._tokens+...)
RefillTokens(t) ==
    /\ th.pc[t] = "refill"
    /\ rl' = [rl EXCEPT !.tokens = Refill(rl, th.t_now[t])]
    /\ th' = [th EXCEPT !.pc[t] = "stamp"]
    /\ UNCHANGED <<ai_config, ai_usage_log, acquired, now, month, call, saver, vault, started, ops>>

\* l.796: self._last=now
StampLast(t) ==
    /\ th.pc[t] = "stamp"
    /\ rl' = [rl EXCEPT !.last = th.t_now[t]]
    /\ th' = [th EXCEPT !.pc[t] = "test"]
    /\ UNCHANGED <<ai_config, ai_usage_log, acquired, now, month, call, saver, vault, started, ops>>

\* leaving the with block: the lock is released and the value returned
Leave(t, ok) ==
    [th EXCEPT !.holder = None, !.pc[t] = "idle",
               !.order[th.slot[t]].ok = ok, !.order[th.slot[t]].done = TRUE]

\* l.797-798: if self._tokens>=1.0 ... return False
TestTokens(t) ==
    /\ th.pc[t] = "test"
    /\ IF rl.tokens >= Period
       THEN th' = [th EXCEPT !.pc[t] = "take"] /\ UNCHANGED acquired
       ELSE th' = Leave(t, FALSE) /\ acquired' = FALSE
    /\ UNCHANGED <<ai_config, ai_usage_log, rl, now, month, call, saver, vault, started, ops>>

\* l.797: self._tokens-=1.0; return True
TakeToken(t) ==
    /\ th.pc[t] = "take"
    /\ rl' = [rl EXCEPT !.tokens = rl.tokens - Period]
    /\ th' = Leave(t, TRUE)
    /\ acquired' = TRUE
    /\ UNCHANGED <<ai_config, ai_usage_log, now, month, call, saver, vault, started, ops>>

\* time passes while the threads run
LockTick(d) ==
    /\ ops < MaxOps
    /\ ops' = ops + 1
    /\ now' = now + d
    /\ UNCHANGED <<ai_config, ai_usage_log, rl, acquired, month, call, saver, th, vault, started>>

ThreadStep(t) ==
    \/ ReadClock(t)
    \/ RefillTokens(t)
    \/ StampLast(t)
    \/ TestTokens(t)
    \/ TakeToken(t)

NextLock ==
    \/ \E t \in Threads : Enter(t)
    \/ \E t \in Threads : ReadClock(t)
    \/ \E t \in Threads : RefillTokens(t)
    \/ \E t \in Threads : StampLast(t)
    \/ \E t \in Threads : TestTokens(t)
    \/ \E t \in Threads : TakeToken(t)
    \/ \E d \in LockGaps : LockTick(d)

SpecLock == InitRL /\ [][NextLock]_vars

\* ================================================================ claims
\* the HTTP requests and the sleeps of a frame, in the order they were made
IsHttp(ev) == ev.e = "http"
IsSleep(ev) == ev.e = "sleep"
HttpOf(f) == SelectSeq(f.events, IsHttp)
SleepsOf(f) == SelectSeq(f.events, IsSleep)

\* the ledger rows written by invocation id
RowsOf(id) == {i \in 1..Len(ai_usage_log) : ai_usage_log[i].call = id}

\* the invocation of frame f passed the rate-limit check
Admitted(f) == f.stage = "rate" /\ f.rate_ok

\* the invocation of frame f has ended
Ended(f) == f.pc = "done"

ReturnedFailure(f) ==
    f.result.state = "returned" /\ ~f.result.success /\ f.result.error # None

\* the classes of outcome of section 4.4 of the specification
TransientOutcome(o) ==
    \/ o.kind = "response" /\ o.status \in {429, 503}
    \/ o.kind = "Timeout"

NonTransientOutcome(o) ==
    \/ o.kind = "response" /\ o.status \notin {200, 429, 503}
    \/ o.kind \in {"ConnectionError", "Exception"}

\* the description of a failed attempt
ErrorText(o) ==
    CASE o.kind = "response" /\ o.status \in {429, 503} -> "HTTP " \o ToString(o.status)
      [] o.kind = "response" /\ o.status \notin {200, 429, 503} ->
            "HTTP " \o ToString(o.status) \o ": " \o o.text
      [] o.kind = "Timeout" -> "Timeout"
      [] o.kind = "ConnectionError" -> "Cannot reach API"
      [] OTHER -> o.text

\* C1: an invocation that passed the rate-limit check has written no
\* UsageRecord while its attempts run and exactly one when it has ended,
\* whatever the outcomes of its attempts; no invocation ever has two.
C1_OneRecordPerCall ==
    /\ \A id \in 1..started : Cardinality(RowsOf(id)) <= 1
    /\ \A c \in Callers :
         Admitted(call[c]) =>
            Cardinality(RowsOf(call[c].id)) = IF Ended(call[c]) THEN 1 ELSE 0

\* C1 witness: an ended invocation of three HTTP attempts with one record
C1_Witness ==
    \E c \in Callers :
        /\ Ended(call[c]) /\ Admitted(call[c])
        /\ Len(HttpOf(call[c])) = 3
        /\ Cardinality(RowsOf(call[c].id)) = 1

\* C2: an invocation rejected at CONFIG_CHECK (no active profile, or no
\* decrypted key), at BUDGET_CHECK (spend >= ceiling) or at RATE_CHECK
\* (acquire() false) ends with a failure result, no UsageRecord and no HTTP
\* request.
C2_RejectedBeforeAttempt ==
    \A c \in Callers :
        LET f == call[c]
            rejected ==
                \/ ~f.cfg.found \/ f.cfg.api_key = None \/ f.cfg.api_key = ""
                \/ f.stage \in {"budget", "rate"} /\ f.monthly_cost >= f.cfg.monthly_budget
                \/ f.stage = "rate" /\ ~f.rate_ok
        IN  (f.id > 0 /\ rejected) =>
              /\ Ended(f)
              /\ ReturnedFailure(f)
              /\ RowsOf(f.id) = {}
              /\ f.events = <<>>

\* C2 witness: a rejection at RATE_CHECK after an earlier invocation was logged
C2_Witness ==
    \E c \in Callers :
        /\ Ended(call[c])
        /\ call[c].stage = "rate" /\ ~call[c].rate_ok
        /\ ReturnedFailure(call[c])
        /\ ai_usage_log # <<>>

\* the month-to-date successful spend, from the ledger
SpendOfMonth(m) ==
    LET Counts(r) == r.success /\ r.created_at = m
    IN  SumCost(SelectSeq(ai_usage_log, Counts))

\* C3: the step of BUDGET_CHECK rejects the invocation exactly when the
\* month-to-date successful spend is >= the ceiling of the profile it read
\* (so with spend = ceiling, and always with a ceiling <= 0), and it returns
\* a failure instead of raising.
C3_BudgetGate ==
    [][\A c \in Callers :
          (call[c].pc = "budget" /\ call'[c].pc # "budget") =>
             LET ceiling == call[c].cfg.monthly_budget
                 rejectedNow == /\ call'[c].pc = "done"
                                /\ call'[c].stage = "budget"
                                /\ ReturnedFailure(call'[c])
             IN  /\ rejectedNow <=> (SpendOfMonth(month) >= ceiling)
                 /\ ceiling <= 0 => rejectedNow
                 /\ ~rejectedNow => call'[c].pc = "rate"]_vars

\* C3 witness: a rejection with the spend equal to a positive ceiling
C3_Witness ==
    \E c \in Callers :
        /\ Ended(call[c]) /\ call[c].stage = "budget"
        /\ call[c].cfg.monthly_budget > 0
        /\ call[c].monthly_cost = call[c].cfg.monthly_budget
        /\ SpendOfMonth(month) = call[c].cfg.monthly_budget

\* C4: a 429, a 503 or a timeout on attempt 1 or 2 is never the end of the
\* invocation: the next thing the invocation does is attempt n+1; on attempt
\* 3 it ends the invocation in failure.  No invocation makes more than 3
\* HTTP requests.
C4_TransientRetried ==
    \A c \in Callers :
        LET f == call[c]
            h == HttpOf(f)
        IN  /\ Len(h) <= 3
            /\ \A i \in 1..Len(h) :
                 /\ h[i].n = i
                 /\ TransientOutcome(h[i].o) =>
                      IF i < 3
                      THEN \/ Len(h) > i
                           \/ f.pc \in {"attempt", "request"} /\ f.attempt = i
                      ELSE /\ f.pc \in {"log", "done"}
                           /\ Ended(f) => ReturnedFailure(f)

\* C4 witness: three transient outcomes, of the three kinds, end in failure
C4_Witness ==
    \E c \in Callers :
        LET h == HttpOf(call[c])
        IN  /\ Ended(call[c]) /\ Len(h) = 3
            /\ h[1].o.kind = "Timeout"
            /\ h[2].o.status = 429
            /\ h[3].o.status = 503
            /\ ReturnedFailure(call[c])

\* C5: a non-transient outcome is the last thing the invocation does before
\* it logs and returns the failure: no attempt and no sleep follows it.  A
\* 404 on attempt 1 gives one HTTP request, no sleep and one UsageRecord
\* with success = false.
C5_NonTransientEndsCall ==
    \A c \in Callers :
        LET f == call[c]
            ev == f.events
        IN  \A i \in 1..Len(ev) :
              (IsHttp(ev[i]) /\ NonTransientOutcome(ev[i].o)) =>
                 /\ i = Len(ev)
                 /\ f.pc \in {"log", "done"}
                 /\ Len(SleepsOf(f)) = Len(HttpOf(f)) - 1
                 /\ Ended(f) =>
                      /\ ReturnedFailure(f)
                      /\ \A r \in RowsOf(f.id) : ~ai_usage_log[r].success
                      /\ Cardinality(RowsOf(f.id)) = 1

\* C5 witness: a 404 on attempt 1
C5_Witness ==
    \E c \in Callers :
        /\ Ended(call[c])
        /\ Len(call[c].events) = 1
        /\ call[c].events[1].o.status = 404
        /\ \E r \in RowsOf(call[c].id) : ~ai_usage_log[r].success

\* C6: the invocation sleeps only between attempts: its history alternates
\* HTTP request, sleep, HTTP request, ...; the sleep before attempt 2 lasts 2
\* and the one before attempt 3 lasts 4; once an attempt has been made the
\* sleeps are one fewer than the attempts.  503, 503, 200 gives the sleeps
\* 2 and 4 and one UsageRecord with success = true.
C6_SleepsBetweenAttempts ==
    \A c \in Callers :
        LET f == call[c]
            ev == f.events
        IN  /\ \A i \in 1..Len(ev) :
                 IF i % 2 = 1
                 THEN IsHttp(ev[i]) /\ ev[i].n = (i + 1) \div 2
                 ELSE /\ IsSleep(ev[i])
                      /\ ev[i].n = i \div 2 + 1
                      /\ ev[i].d = IF i = 2 THEN 2 ELSE 4
            /\ f.pc \in {"attempt", "log", "done"} /\ ev # <<>> =>
                 Len(SleepsOf(f)) = Len(HttpOf(f)) - 1
            /\ f.pc = "request" => ev # <<>> /\ IsSleep(ev[Len(ev)])

\* C6 witness: 503, 503, 200
C6_Witness ==
    \E c \in Callers :
        LET f == call[c]
        IN  /\ Ended(f) /\ Len(f.events) = 5
            /\ f.events[1].o.status = 503 /\ f.events[3].o.status = 503
            /\ f.events[5].o.status = 200 /\ f.result.success
            /\ f.events[2].d = 2 /\ f.events[4].d = 4
            /\ \E r \in RowsOf(f.id) : ai_usage_log[r].success

\* C7: every UsageRecord with success = false has cost 0 and 0 prompt and
\* completion tokens.
C7_FailedRecordsAreFree ==
    \A i \in 1..Len(ai_usage_log) :
        ~ai_usage_log[i].success =>
            /\ ai_usage_log[i].cost_usd = 0
            /\ ai_usage_log[i].prompt_tokens = 0
            /\ ai_usage_log[i].completion_tokens = 0

\* C7 witness: a failed record next to a successful one that has a cost
C7_Witness ==
    \E i, j \in 1..Len(ai_usage_log) :
        /\ ~ai_usage_log[i].success
        /\ ai_usage_log[j].success /\ ai_usage_log[j].cost_usd > 0

\* C8: when an invocation that made an attempt ends in failure, its
\* UsageRecord has success = false and the error of its last attempt, and
\* the result given to the caller has the same error.
C8_LastErrorLogged ==
    \A c \in Callers :
        LET f == call[c]
            h == HttpOf(f)
        IN  (Ended(f) /\ h # <<>> /\ ~f.result.success) =>
              /\ RowsOf(f.id) # {}
              /\ \A r \in RowsOf(f.id) :
                    /\ ~ai_usage_log[r].success
                    /\ ai_usage_log[r].error_msg = ErrorText(h[Len(h)].o)
              /\ f.result.error = ErrorText(h[Len(h)].o)

\* C8 witness: the last attempt fails otherwise than the first one
C8_Witness ==
    \E c \in Callers :
        LET h == HttpOf(call[c])
        IN  /\ Ended(call[c]) /\ Len(h) = 3 /\ ~call[c].result.success
            /\ h[1].o.status = 503
            /\ h[3].o.kind = "Timeout"
            /\ call[c].result.error = "Timeout"

\* C9: call_ai never raises: an invocation that has ended has returned a
\* result, and a result that is no success has success = false and an error
\* description.
C9_NeverRaises ==
    \A c \in Callers :
        /\ call[c].result.state # "raised"
        /\ Ended(call[c]) =>
              /\ call[c].result.state = "returned"
              /\ ~call[c].result.success => call[c].result.error # None
              /\ call[c].result.success => call[c].result.error = None

\* C9 witness: an unexpected error of the HTTP library ends in a failure result
C9_Witness ==
    \E c \in Callers :
        LET h == HttpOf(call[c])
        IN  /\ Ended(call[c]) /\ h # <<>>
            /\ h[Len(h)].o.kind = "Exception"
            /\ ReturnedFailure(call[c])

\* C10: after any sequence of acquire() calls at non-decreasing clock
\* values the token count is between 0 and the capacity.
C10_TokensWithinCapacity ==
    rl.made => 0 <= rl.tokens /\ rl.tokens <= rl.max * Period

\* C10 witness: a refill that the capacity cuts short
C10_Witness ==
    /\ rl.made /\ rl.max = 2 /\ acquired
    /\ rl.last = now /\ now >= 90
    /\ rl.tokens = (rl.max - 1) * Period

\* C11: a call of acquire() sets last-refill to the clock and the count to
\* min(capacity, count + elapsed/60*capacity); it returns true and takes
\* exactly one token off iff that refilled count is >= 1, and otherwise
\* returns false and leaves the refilled count as it is.
C11_AcquireContract ==
    [][ops' = ops + 1 =>
         LET elapsed == now' - rl.last
             grown == rl.tokens + elapsed * rl.max
             refilled == IF grown > rl.max * Period THEN rl.max * Period ELSE grown
         IN  /\ rl'.last = now'
             /\ rl'.max = rl.max
             /\ acquired' <=> (refilled >= Period)
             /\ rl'.tokens = IF refilled >= Period THEN refilled - Period ELSE refilled]_vars

\* C11 witness: a rejected call that kept a partial refill
C11_Witness ==
    /\ rl.made /\ ~acquired /\ ops >= 2
    /\ rl.last = now /\ now > 0
    /\ rl.tokens > 0 /\ rl.tokens < Period

\* C12: the first call of a limiter of capacity >= 1 returns true, and so
\* does every call that comes at least 60/capacity after the call before it;
\* hence every call of a sequence paced that way returns true.
C12_PacedCallerAdmitted ==
    [][(ops' = ops + 1 /\ rl.max >= 1
        /\ (ops = 0 \/ (now' - rl.last) * rl.max >= Period)) => acquired']_vars

\* C12 witness: four calls, each 90 seconds after the one before (no other
\* four calls end at second 360), the last one admitted
C12_Witness ==
    /\ rl.made /\ rl.max = 2 /\ acquired
    /\ ops = 4 /\ now = 360 /\ rl.last = 360
    /\ rl.tokens = Period

\* the calls of log in a sequential run: the limiter at the end, and the
\* values returned
RECURSIVE Replay(_, _)
Replay(l, log) ==
    IF log = <<>> THEN [rl |-> l, oks |-> <<>>]
    ELSE LET a == acquire(l, Head(log).at)
             rest == Replay(a.rl, Tail(log))
         IN  [rl |-> rest.rl, oks |-> <<a.ok>> \o rest.oks]

\* C13: whenever no thread is inside acquire(), the limiter and the values
\* returned are those of the same calls run one after the other, in the
\* order they took the lock: no update of tokens or last-refill is lost, the
\* admitted calls never outnumber the tokens there were, and a thread that
\* holds the lock never waits (its next step is enabled whatever the count).
C13_AcquireAtomic ==
    /\ (\A t \in Threads : th.pc[t] = "idle") =>
          LET seq == Replay(NewRateLimiter(rl.max, 0), th.order)
              admitted == {k \in 1..Len(th.order) : th.order[k].ok}
          IN  /\ rl = seq.rl
              /\ \A k \in 1..Len(th.order) :
                    th.order[k].done /\ th.order[k].ok = seq.oks[k]
              /\ Cardinality(admitted) * Period <= rl.max * Period + now * rl.max
    /\ \A t \in Threads : th.pc[t] \notin {"idle"} => th.holder = t
    /\ \A t \in Threads : th.holder = t => ENABLED ThreadStep(t)

\* C13 witness: two threads called acquire() on a limiter of capacity 1 with
\* no time between them: one was admitted, the other rejected
C13_Witness ==
    /\ \A t \in Threads : th.pc[t] = "idle"
    /\ rl.max = 1 /\ now = 0 /\ Len(th.order) = 2
    /\ th.order[1].t # th.order[2].t
    /\ th.order[1].ok /\ ~th.order[2].ok

\* C14: at most one credential profile is active in every reachable state,
\* the states between the two statements of save_ai_config and every
\* interleaving of concurrent saves included.
C14_AtMostOneActive == Cardinality(ActiveRows) <= 1

\* C15: a step never removes a stored profile nor changes a field of one
\* other than its active flag, and when a save completes, the stored row it
\* added holds what was saved and get_ai_config returns exactly that row.
C15_SaveSupersedes ==
    [][/\ Len(ai_config') >= Len(ai_config)
       /\ \A i \in 1..Len(ai_config) :
             [ai_config'[i] EXCEPT !.is_active = FALSE] = [ai_config[i] EXCEPT !.is_active = FALSE]
       /\ (saver[OwnSaver].pc = "insert" /\ saver'[OwnSaver].pc = "idle") =>
             LET n == Len(ai_config')
                 saved == saver[OwnSaver]
             IN  /\ n = Len(ai_config) + 1
                 /\ ai_config'[n].model = saved.model
                 /\ ai_config'[n].monthly_budget = saved.budget
                 /\ get_ai_config' =
                       {[found |-> TRUE,
                         api_key |-> IF saved.api_key = "" THEN None ELSE saved.api_key,
                         model |-> saved.model,
                         monthly_budget |-> saved.budget]}]_vars

\* C15 witness: a second save completed: the first profile is still stored,
\* inactive, and get_ai_config returns the second, different one
C15_Witness ==
    /\ NoSaveRunning
    /\ Len(ai_config) = 2
    /\ ~ai_config[1].is_active /\ ai_config[2].is_active
    /\ ai_config[1].model = "deepseek-chat" /\ ai_config[2].model = "custom-model"
    /\ \A cfg \in get_ai_config : cfg.found /\ cfg.model = "custom-model" /\ cfg.api_key = "sk-live"

\* C16: a step leaves every record of the ledger where and as it was and
\* adds at most one record, at the end; so the records stand in the order
\* they were created: by call, and by the month they were written in.
C16_LedgerAppendOnly ==
    [][/\ Len(ai_usage_log') \in {Len(ai_usage_log), Len(ai_usage_log) + 1}
       /\ SubSeq(ai_usage_log', 1, Len(ai_usage_log)) = ai_usage_log
       /\ \A j \in 2..Len(ai_usage_log') :
             /\ ai_usage_log'[j - 1].created_at <= ai_usage_log'[j].created_at
             /\ ai_usage_log'[j - 1].call < ai_usage_log'[j].call]_vars

\* C16 witness: a failed call was recorded in one month and a successful one
\* in the next: both records are in the ledger, the older one first
C16_Witness ==
    /\ Len(ai_usage_log) = 2
    /\ ~ai_usage_log[1].success /\ ai_usage_log[1].created_at = 0
    /\ ai_usage_log[2].success /\ ai_usage_log[2].created_at = 1
    /\ ai_usage_log[1].call < ai_usage_log[2].call

\* C17: get_monthly_cost is the sum of the cost of the records that are
\* successes and were created in the month of the query; the failed records
\* and the records of earlier months add nothing, so when no success was
\* recorded yet in the month (as right after the month changes) it is 0.
C17_MonthlyCost ==
    LET counted == {i \in 1..Len(ai_usage_log) :
                      ai_usage_log[i].success /\ ai_usage_log[i].created_at = month}
    IN  /\ get_monthly_cost = SpendOfMonth(month)
        /\ counted = {} => get_monthly_cost = 0
        /\ \A i \in counted : get_monthly_cost >= ai_usage_log[i].cost_usd
        /\ (\A i \in counted : \A j \in counted : i = j) =>
              \A i \in counted : get_monthly_cost = ai_usage_log[i].cost_usd

\* C17 witness: a success that used up the whole ceiling was recorded last
\* month; in the new month the spend is 0 again and BUDGET_CHECK, reading
\* 0, let the next invocation through
C17_Witness ==
    /\ month = 1
    /\ \E i \in 1..Len(ai_usage_log) :
          /\ ai_usage_log[i].success /\ ai_usage_log[i].created_at = 0
          /\ ai_usage_log[i].cost_usd = 28000000
    /\ get_monthly_cost = 0
    /\ \E c \in Callers :
          /\ call[c].pc = "rate" /\ call[c].stage = "budget"
          /\ call[c].monthly_cost = 0
          /\ call[c].cfg.monthly_budget = 28000000

\* C18: with the cipher available, decrypt_secret gives back the non-empty
\* key that encrypt_secret was given; it gives absent for the empty string;
\* and for a string that is no ciphertext under the current secret it gives
\* absent: a value, not an exception.
C18_VaultRoundTrip ==
    (CRYPTO_AVAILABLE /\ vault.opened # "<unset>") =>
        /\ (vault.origin = "encrypt" /\ vault.key # "") =>
              /\ vault.token # vault.key
              /\ vault.opened = vault.key
        /\ vault.token = "" => vault.opened = None
        /\ vault.origin = "garbage" => vault.opened = None

\* C18 witness: a 20-character key went through encrypt_secret and
\* decrypt_secret and came back
C18_Witness ==
    /\ vault.key = "sk-live-0123456789ab"
    /\ vault.origin = "encrypt"
    /\ vault.token # vault.key
    /\ vault.opened = "sk-live-0123456789ab"

\* C19 as stated: a key longer than 8 characters masks to its first 8
\* characters followed by a fixed 8-character filler, and a key of 8
\* characters or fewer to one fixed string.
C19_MaskEightFiller ==
    vault.masked # None =>
        IF Len(vault.key) > 8
        THEN /\ Len(vault.masked) = 8 + 8
             /\ SubSeq(vault.masked, 1, 8) = SubSeq(vault.key, 1, 8)
        ELSE vault.masked = "●●●"

\* C19 amended: a key longer than 8 characters masks to its first 8
\* characters followed by the fixed 11-character filler of three middle dots
\* and eight bullets; a key of 8 characters or fewer masks to the one fixed
\* string of three bullets, which holds no character of the key.
C19_MaskElevenFiller ==
    vault.masked # None =>
        IF Len(vault.key) > 8
        THEN /\ Len(vault.masked) = 8 + 11
             /\ SubSeq(vault.masked, 1, 8) = SubSeq(vault.key, 1, 8)
             /\ SubSeq(vault.masked, 9, 19) = "···●●●●●●●●"
        ELSE vault.masked = "●●●"

\* C19 witness: the 20-character key was masked
C19_Witness ==
    /\ vault.key = "sk-live-0123456789ab"
    /\ vault.masked = "sk-live-···●●●●●●●●"

\* C20: the cost of every success recorded, and the cost returned with it,
\* is prompt_tokens * price_in + completion_tokens * price_out, the prices
\* per 1,000,000 tokens being (0.14, 0.28) for the models of the pricing
\* table and (0.14, 0.28) for any other model; 1,000,000 prompt tokens and
\* 500,000 completion tokens cost 0.28. (Money in 1e-8 USD: 0.14 USD per
\* 1,000,000 tokens is 14 a token, and 0.28 USD is 28,000,000.)
C20_CostFormula ==
    LET price_in(m) == IF m \in {"deepseek-chat", "deepseek-coder"} THEN 14 ELSE 14
        price_out(m) == IF m \in {"deepseek-chat", "deepseek-coder"} THEN 28 ELSE 28
    IN  /\ \A i \in 1..Len(ai_usage_log) :
              LET r == ai_usage_log[i]
              IN  r.success =>
                    /\ r.cost_usd = r.prompt_tokens * price_in(r.model)
                                      + r.completion_tokens * price_out(r.model)
                    /\ (r.prompt_tokens = 1000000 /\ r.completion_tokens = 500000) =>
                          r.cost_usd = 28000000
        /\ \A c \in Callers :
              call[c].result.success =>
                 \A i \in RowsOf(call[c].id) :
                    /\ ai_usage_log[i].success
                    /\ call[c].result.cost_usd = ai_usage_log[i].cost_usd
                    /\ call[c].result.prompt_tokens = ai_usage_log[i].prompt_tokens
                    /\ call[c].result.completion_tokens = ai_usage_log[i].completion_tokens

\* C20 witness: a call to a model that is not in the pricing table came
\* back with 1,000,000 prompt and 500,000 completion tokens and cost 0.28
C20_Witness ==
    \E c \in Callers :
        /\ call[c].result.success
        /\ call[c].result.cost_usd = 28000000
        /\ \E i \in RowsOf(call[c].id) :
              /\ ai_usage_log[i].model = "custom-model"
              /\ ai_usage_log[i].prompt_tokens = 1000000
              /\ ai_usage_log[i].completion_tokens = 500000
              /\ ai_usage_log[i].cost_usd = 28000000

\* C21: in every record written by call_ai an error description is present
\* exactly when success is false: a success record has none, and a failure
\* record has a non-empty one, whatever made the attempt loop fail.
C21_ErrorIffFailure ==
    \A i \in 1..Len(ai_usage_log) :
        LET r == ai_usage_log[i]
        IN  IF r.success THEN r.error_msg = None
            ELSE r.error_msg # None /\ r.error_msg # ""

\* the invocation of frame f got past the budget check
PassedBudget(f) ==
    f.id > 0 /\ (f.stage = "rate" \/ (f.stage = "budget" /\ f.pc = "rate"))

\* C22: the budget check is check-then-act. Every invocation that got past
\* it read a spend below its ceiling, and the gate looks at nothing but that
\* reading: what the other invocations write afterwards does not stop it.
\* (The interleaving the claim speaks of is C22_Witness.)
C22_BudgetCheckThenAct ==
    \A c \in Racers :
        PassedBudget(call[c]) =>
            /\ call[c].monthly_cost < call[c].cfg.monthly_budget
            /\ call[c].monthly_cost <= get_monthly_cost
            /\ call[c].result.success =>
                  get_monthly_cost >= call[c].monthly_cost + call[c].result.cost_usd

\* C22 witness: two invocations read a spend of 0 under a ceiling of 0.14
\* before either wrote its record, both were admitted and both succeeded
\* at 0.28 each: the spend of the month, 0.56, is above the ceiling by 0.42,
\* more than the cost of one call
C22_Witness ==
    /\ \A c \in Racers :
          /\ PassedBudget(call[c]) /\ call[c].result.success
          /\ call[c].monthly_cost = 0
          /\ call[c].cfg.monthly_budget = 14000000
          /\ call[c].result.cost_usd = 28000000
    /\ get_monthly_cost = 56000000
    /\ get_monthly_cost - 14000000 > 28000000

\* C23: an invocation reads the active profile once, when it starts: the
\* profile it holds is one get_ai_config returned at that moment, and no
\* later step of the invocation, whatever is saved meanwhile, changes it;
\* every HTTP attempt is sent with the key and the model of that profile,
\* the budget check compares with its ceiling, and the record written has
\* its model.
C23_ProfileReadOnce ==
    [][\A c \in Callers :
         LET f == call[c]
             g == call'[c]
         IN  /\ (g.id > 0 /\ g.id # f.id) => g.cfg \in get_ai_config
             /\ (g.id > 0 /\ g.id = f.id) =>
                   /\ g.cfg = f.cfg
                   /\ \A i \in 1..Len(g.events) :
                         IsHttp(g.events[i]) =>
                            /\ g.events[i].sent.api_key = f.cfg.api_key
                            /\ g.events[i].sent.model = f.cfg.model
                   /\ (f.pc = "budget" /\ g.pc = "done") => g.monthly_cost >= f.cfg.monthly_budget
                   /\ (f.pc = "budget" /\ g.pc = "rate") => g.monthly_cost < f.cfg.monthly_budget
                   /\ \A i \in 1..Len(ai_usage_log') :
                         ai_usage_log'[i].call = g.id => ai_usage_log'[i].model = f.cfg.model]_vars

\* C23 witness: an invocation that read the profile (sk-live, deepseek-chat)
\* was retried after another profile (sk-next, custom-model) had been saved
\* and made active (the save was over at second 0, the retry left after the
\* backoff, at second 2): the retry went out with sk-live and
\* deepseek-chat, and so did the record
C23_Witness ==
    \E c \in Callers :
        LET f == call[c]
            h == HttpOf(f)
        IN  /\ f.pc = "done" /\ f.cfg.api_key = "sk-live" /\ f.cfg.model = "deepseek-chat"
            /\ NoSaveRunning
            /\ \A cfg \in get_ai_config : cfg.api_key = "sk-next" /\ cfg.model = "custom-model"
            /\ Len(ai_config) = 2 /\ ai_config[2].updated_at = <<0, 0>> /\ now = 2
            /\ Len(h) = 2
            /\ h[2].sent.api_key = "sk-live" /\ h[2].sent.model = "deepseek-chat"
            /\ \E i \in RowsOf(f.id) : ai_usage_log[i].model = "deepseek-chat"

\* the seconds slept in the sleeps of sl
RECURSIVE SleptIn(_)
SleptIn(sl) == IF sl = <<>> THEN 0 ELSE Head(sl).d + SleptIn(Tail(sl))

\* C24: every invocation that has started comes to its end, with a result
\* for the caller, and on the way it makes at most 3 HTTP attempts and at
\* most 2 sleeps, of at most 6 seconds together: with attempts that end
\* within the timeout, that is 3 * timeout + 6.
C24_CallTerminates ==
    /\ [](\A c \in Callers :
            /\ Len(HttpOf(call[c])) <= 3
            /\ Len(SleepsOf(call[c])) <= 2
            /\ SleptIn(SleepsOf(call[c])) <= 6
            /\ call[c].pc = "done" => call[c].result.state = "returned")
    /\ \A c \in Callers : (call[c].pc # "idle") ~> (call[c].pc = "done")

\* C24 witness: the longest invocation: three attempts that timed out, two
\* sleeps of 2 and 4 seconds, then the failure result
C24_Witness ==
    \E c \in Callers :
        /\ call[c].pc = "done" /\ call[c].result.state = "returned"
        /\ Len(HttpOf(call[c])) = 3
        /\ \A i \in 1..3 : HttpOf(call[c])[i].o.kind = "Timeout"
        /\ Len(SleepsOf(call[c])) = 2
        /\ SleptIn(SleepsOf(call[c])) = 6

\* C25: an invocation runs its checks in the order credential, budget, rate
\* limit; the limiter changes in no other step than the rate-limit check of
\* an invocation, which each invocation makes at most once (so a call
\* rejected at the credential or the budget check leaves the token count and
\* the last-refill time as they were, and neither an attempt nor the end of
\* a call, failed or not, gives a token back); that check takes exactly one
\* token from the refilled count when it admits and none when it rejects.
C25_ChecksInOrder ==
    [][/\ \A c \in Callers :
             LET f == call[c]
                 g == call'[c]
             IN  /\ (g.id # f.id /\ g.id > 0) => g.stage = "config"
                 /\ (g.id = f.id /\ g.stage # f.stage) =>
                       <<f.stage, g.stage>> \in {<<"config", "budget">>, <<"budget", "rate">>}
                 /\ (g.id = f.id /\ f.stage = "budget" /\ g.stage = "rate") =>
                       LET grown == rl.tokens + (now - rl.last) * rl.max
                           refilled == IF ~rl.made \/ grown > rl.max * Period
                                       THEN rl'.max * Period ELSE grown
                       IN  /\ rl'.last = now
                           /\ rl'.tokens = IF g.rate_ok THEN refilled - Period ELSE refilled
       /\ rl' # rl =>
             \E c \in Callers :
                 /\ call'[c].id = call[c].id
                 /\ call[c].stage = "budget" /\ call'[c].stage = "rate"]_vars

\* C25 witness: the first invocation of a session with a limiter of 2 was
\* admitted, made 3 attempts and failed: one token is gone, none came back
C25_Witness ==
    \E c \in Callers :
        /\ call[c].pc = "done" /\ call[c].id = 1
        /\ call[c].rate_ok /\ ~call[c].result.success
        /\ Len(HttpOf(call[c])) = 3
        /\ rl.made /\ rl.max = 2 /\ rl.tokens = Period /\ rl.last = 0 /\ now = 6

\* C26: once a profile with a usable key has been saved, and whatever saves
\* of other usable keys are running, get_ai_config returns a profile with a
\* usable key, the previous one or the new one, never "no active profile".
C26_SaveAtomicForReaders ==
    ai_config # <<>> =>
        \A cfg \in get_ai_config : cfg.found /\ cfg.api_key # None /\ cfg.api_key # ""

\* C27: when a save has failed at its insert, the store is as it was before
\* the save: the profile that was active (the last one stored) is active and
\* is the one get_ai_config returns.
C27_FailedSaveLeavesStore ==
    \A s \in Savers :
        (saver[s].pc = "raised" /\ ai_config # <<>>) =>
            /\ ai_config[Len(ai_config)].is_active
            /\ get_ai_config = {ConfigOfRow(Len(ai_config))}

\* C28: with invocations made one at a time, an invocation that is about
\* to issue an HTTP request is in a state where the successful spend
\* recorded for the month is below its ceiling: at or above the ceiling no
\* request is issued. And when all the profiles saved have the same ceiling,
\* the spend of the month less the cost of the month's last success is below
\* that ceiling: the spend goes over it by less than the cost of one call.
C28_SequentialOvershoot ==
    /\ \A c \in Callers :
          call[c].pc \in {"attempt", "request"} =>
              SpendOfMonth(month) < call[c].cfg.monthly_budget
    /\ \A b \in {ai_config[i].monthly_budget : i \in 1..Len(ai_config)} :
          LET paid == {i \in 1..Len(ai_usage_log) :
                          ai_usage_log[i].success /\ ai_usage_log[i].created_at = month}
              last == CHOOSE i \in paid : \A j \in paid : j <= i
          IN  (paid # {} /\ \A i \in 1..Len(ai_config) : ai_config[i].monthly_budget = b) =>
                  SpendOfMonth(month) - ai_usage_log[last].cost_usd < b

\* C28 witness: under a ceiling of 0.28 a call of 0.14 and a call of 0.28
\* succeeded one after the other; the spend, 0.42, is over the ceiling by
\* less than the cost of the last call, and the next invocation was
\* rejected at the budget check without an HTTP request
C28_Witness ==
    /\ SpendOfMonth(month) = 42000000
    /\ \A i \in 1..Len(ai_config) : ai_config[i].monthly_budget = 28000000
    /\ \E c \in Callers :
          /\ call[c].pc = "done" /\ call[c].stage = "budget"
          /\ call[c].cfg.monthly_budget = 28000000
          /\ call[c].monthly_cost = 42000000
          /\ HttpOf(call[c]) = <<>>

\* C29: for a limiter of capacity C, the calls of acquire() that return
\* true in any stretch of T seconds number at most C + T/60 * C, whatever
\* the interleaving of the threads that call it. (A call is placed in time
\* where it reads the clock; counts are compared in 1/60 of a token.)
C29_AdmissionsBounded ==
    \A i \in 1..Len(th.order) : \A j \in i..Len(th.order) :
        LET admitted == {k \in i..j : th.order[k].ok}
            T == th.order[j].at - th.order[i].at
        IN  /\ T >= 0
            /\ Cardinality(admitted) * Period <= rl.max * Period + T * rl.max

\* C29 witness: on a limiter of capacity 2 the two threads were admitted
\* three times within 30 seconds, which is 2 + 30/60 * 2 and no fewer
C29_Witness ==
    /\ rl.max = 2 /\ Len(th.order) = 3
    /\ \A k \in 1..3 : th.order[k].done /\ th.order[k].ok
    /\ th.order[1].at = 0 /\ th.order[3].at = 30
    /\ \E k \in 1..3 : th.order[k].t = "t1"
    /\ \E k \in 1..3 : th.order[k].t = "t2"

\* a 200 whose body cannot be read: it is not JSON, it has no choices, or
\* its message has no content field
UnusableBody(o) ==
    o.kind = "response" /\ o.status = 200 /\ o.body \in {"not-json", "bad", "no-content"}

====
